---- MODULE Spec2Model ----
(***************************************************************************)
(* ECDSA signatures of rust-secp256k1 (src/ecdsa/mod.rs): the Signature    *)
(* codec (strict DER, lax DER, compact, hex text), low-S normalisation,    *)
(* signing with the r-grinding loop, and verification.                     *)
(*                                                                         *)
(* Byte strings are sequences of 0..255.  A scalar is a 32-byte big-endian *)
(* sequence, an ffi::Signature is the pair [r, s] of scalars.  The engine  *)
(* (secp256k1-sys) is modelled from its contract; the wrappers are         *)
(* modelled from the Rust source.                                          *)
(***************************************************************************)
EXTENDS Integers, Sequences, FiniteSets, TLC

VARIABLES
    build,          \* [fuzzing, overflow_checks]: the cfg the crate was built with
    rfc6979,        \* the engine's deterministic nonce derivation
    pc,             \* "idle" | "loop" | "done" | "panic"
    call,           \* the public method being executed and its arguments
    entropy_p,      \* sign_grind_with_check: "null" or "extra_entropy"
    counter,        \* sign_grind_with_check: u32 counter
    extra_entropy,  \* sign_grind_with_check: [u8; 32]
    calls,          \* engine calls made by the current method, in order
    check,          \* sign_grind_with_check: the predicate closure
    checked,        \* the last evaluation of the predicate
    result,         \* value returned by the current method, or the panic message
    prev,           \* the previous finished call, kept while it is replayed
    sig,            \* codec: the Signature value the caller holds
    last            \* codec: the last codec operation, its input and output

vars == <<build, rfc6979, pc, call, entropy_p, counter, extra_entropy,
          calls, check, checked, result, prev, sig, last>>

signVars == <<build, rfc6979, pc, call, entropy_p, counter, extra_entropy,
              calls, check, checked, result, prev>>

codecVars == <<sig, last>>

----------------------------------------------------------------------------
(* Bounds of the model *)

\* number of values of the grinding counter (a u32 in the source: 2^32),
\* scaled so that the end of its range is reached
U32Modulus == 4

\* number of values of a usize (2^64 on the usual targets), scaled to stay
\* inside TLC's integers
UsizeModulus == 65536

\* number of extra grinding attempts explored past the counter's range
ExtraAttempts == 2

----------------------------------------------------------------------------
(* Bytes and scalars *)

Rep(b, n) == [i \in 1..n |-> b]

Zeros(n) == Rep(0, n)

\* the order n of the secp256k1 group
CurveOrder ==
    << 255, 255, 255, 255, 255, 255, 255, 255, 255, 255, 255, 255, 255, 255, 255, 254,
       186, 174, 220, 230, 175,  72, 160,  59, 191, 210,  94, 140, 208,  54,  65,  65 >>

\* floor(n / 2)
HalfOrder ==
    << 127, 255, 255, 255, 255, 255, 255, 255, 255, 255, 255, 255, 255, 255, 255, 255,
        93,  87, 110, 115,  87, 164,  80,  29, 223, 233,  47,  70, 104,  27,  32, 160 >>

\* a, b of equal length, big-endian: a < b
RECURSIVE BytesLess(_, _)
BytesLess(a, b) ==
    IF a = <<>> THEN FALSE
    ELSE IF Head(a) # Head(b) THEN Head(a) < Head(b)
    ELSE BytesLess(Tail(a), Tail(b))

\* borrow taken from byte i when subtracting b from a
RECURSIVE Borrow(_, _, _)
Borrow(a, b, i) ==
    IF i = Len(a) THEN 0
    ELSE IF a[i + 1] - b[i + 1] - Borrow(a, b, i + 1) < 0 THEN 1 ELSE 0

\* a - b modulo 256^Len(a)
BytesSub(a, b) ==
    [i \in 1..Len(a) |-> (a[i] - b[i] - Borrow(a, b, i) + 256) % 256]

\* carry into byte i when adding a and b
RECURSIVE Carry(_, _, _)
Carry(a, b, i) ==
    IF i = Len(a) THEN 0
    ELSE IF a[i + 1] + b[i + 1] + Carry(a, b, i + 1) > 255 THEN 1 ELSE 0

\* a + b modulo 256^Len(a)
BytesAdd(a, b) ==
    [i \in 1..Len(a) |-> (a[i] + b[i] + Carry(a, b, i)) % 256]

IsZero(a) == a = Zeros(Len(a))

\* secp256k1_scalar_set_b32: the scalar and whether the bytes were >= n
scalar_set_b32(b32) ==
    IF BytesLess(b32, CurveOrder)
    THEN [scalar |-> b32, overflow |-> FALSE]
    ELSE [scalar |-> BytesSub(b32, CurveOrder), overflow |-> TRUE]

\* secp256k1_scalar_is_high: a > n/2
scalar_is_high(a) == BytesLess(HalfOrder, a)

\* secp256k1_scalar_negate: -a mod n
scalar_negate(a) == IF IsZero(a) THEN a ELSE BytesSub(CurveOrder, a)

----------------------------------------------------------------------------
(* Result<T, Error> *)

Ok(v) == [ok |-> TRUE, val |-> v]

Err(e) == [ok |-> FALSE, err |-> e]

InvalidSignature == "InvalidSignature"

IncorrectSignature == "IncorrectSignature"

----------------------------------------------------------------------------
(* The engine's signature object and its codecs (secp256k1-sys) *)

\* ffi::Signature::new(): the zeroed 64-byte object
ffi_Signature_new == [r |-> Zeros(32), s |-> Zeros(32)]

\* secp256k1_ecdsa_signature_parse_compact: r || s, each below the order
secp256k1_ecdsa_signature_parse_compact(input64) ==
    LET r == scalar_set_b32(SubSeq(input64, 1, 32))
        s == scalar_set_b32(SubSeq(input64, 33, 64))
    IN  IF r.overflow \/ s.overflow
        THEN [ret |-> 0, sig |-> ffi_Signature_new]
        ELSE [ret |-> 1, sig |-> [r |-> r.scalar, s |-> s.scalar]]

\* secp256k1_ecdsa_signature_serialize_compact
secp256k1_ecdsa_signature_serialize_compact(s) ==
    [ret |-> 1, output64 |-> s.r \o s.s]

\* the minimal two's-complement form of a non-negative 32-byte integer:
\* a 0x00 is put in front and leading 0x00 are dropped while the next byte
\* has its top bit clear
RECURSIVE DerStrip(_)
DerStrip(b) ==
    IF Len(b) > 1 /\ b[1] = 0 /\ b[2] < 128 THEN DerStrip(Tail(b)) ELSE b

DerInt(scalar) == DerStrip(<<0>> \o scalar)

\* secp256k1_ecdsa_signature_serialize_der into a buffer of `size` bytes:
\* ret 0 and the needed size when the buffer is too small
secp256k1_ecdsa_signature_serialize_der(size, s) ==
    LET rp == DerInt(s.r)
        sp == DerInt(s.s)
        need == 6 + Len(rp) + Len(sp)
    IN  IF size < need
        THEN [ret |-> 0, outputlen |-> need, output |-> <<>>]
        ELSE [ret |-> 1, outputlen |-> need,
              output |-> <<48, 4 + Len(rp) + Len(sp), 2, Len(rp)>> \o rp
                         \o <<2, Len(sp)>> \o sp]

\* secp256k1_der_read_len at offset pos of d.  Inputs of the model are
\* shorter than 128 bytes, so a long-form length of two or more octets
\* always exceeds the array.
secp256k1_der_read_len(d, pos) ==
    LET end == Len(d)
        no  == [ok |-> FALSE, len |-> 0, pos |-> pos]
    IN  IF pos >= end THEN no
        ELSE LET b1 == d[pos + 1] IN
             IF b1 = 255 THEN no
             ELSE IF b1 < 128 THEN [ok |-> TRUE, len |-> b1, pos |-> pos + 1]
             ELSE IF b1 = 128 THEN no
             ELSE LET lenleft == b1 - 128 IN
                  IF lenleft > end - (pos + 1) THEN no
                  ELSE IF d[pos + 2] = 0 THEN no
                  ELSE IF lenleft > 1 THEN no
                  ELSE LET len == d[pos + 2] IN
                       IF len > end - (pos + 2) THEN no
                       ELSE IF len < 128 THEN no
                       ELSE [ok |-> TRUE, len |-> len, pos |-> pos + 2]

\* secp256k1_der_parse_integer at offset pos of d
secp256k1_der_parse_integer(d, pos) ==
    LET end == Len(d)
        no  == [ok |-> FALSE, scalar |-> Zeros(32), pos |-> pos]
    IN  IF pos = end \/ d[pos + 1] # 2 THEN no
        ELSE LET l == secp256k1_der_read_len(d, pos + 1) IN
             IF ~l.ok THEN no
             ELSE IF l.len = 0 \/ l.len > end - l.pos THEN no
             ELSE LET first == d[l.pos + 1] IN
                  IF first = 0 /\ l.len > 1 /\ d[l.pos + 2] < 128 THEN no
                  ELSE IF first = 255 /\ l.len > 1 /\ d[l.pos + 2] >= 128 THEN no
                  ELSE LET negative == first >= 128
                           skip == IF first = 0 THEN 1 ELSE 0
                           rlen == l.len - skip
                           from == l.pos + skip
                           ra   == Zeros(32 - rlen) \o SubSeq(d, from + 1, from + rlen)
                           sc   == IF negative \/ rlen > 32
                                   THEN [scalar |-> Zeros(32), overflow |-> TRUE]
                                   ELSE scalar_set_b32(ra)
                       IN  [ok |-> TRUE,
                            scalar |-> IF sc.overflow THEN Zeros(32) ELSE sc.scalar,
                            pos |-> from + rlen]

\* secp256k1_ecdsa_signature_parse_der: strict DER
secp256k1_ecdsa_signature_parse_der(input) ==
    LET end == Len(input)
        no  == [ret |-> 0, sig |-> ffi_Signature_new]
    IN  IF end = 0 \/ input[1] # 48 THEN no
        ELSE LET l == secp256k1_der_read_len(input, 1) IN
             IF ~l.ok THEN no
             ELSE IF l.len # end - l.pos THEN no
             ELSE LET r == secp256k1_der_parse_integer(input, l.pos) IN
                  IF ~r.ok THEN no
                  ELSE LET s == secp256k1_der_parse_integer(input, r.pos) IN
                       IF ~s.ok THEN no
                       ELSE IF s.pos # end THEN no
                       ELSE [ret |-> 1, sig |-> [r |-> r.scalar, s |-> s.scalar]]

\* ecdsa_signature_parse_der_lax: the length octets of an INTEGER at
\* offset pos.  Leading zero length octets are skipped; with inputs shorter
\* than 128 bytes two or more remaining octets always exceed the array.
RECURSIVE LaxSkipZeros(_, _, _)
LaxSkipZeros(input, pos, lenbyte) ==
    IF lenbyte > 0 /\ input[pos + 1] = 0
    THEN LaxSkipZeros(input, pos + 1, lenbyte - 1)
    ELSE [pos |-> pos, lenbyte |-> lenbyte]

lax_integer_len(input, pos) ==
    LET inputlen == Len(input)
        no == [ok |-> FALSE, len |-> 0, pos |-> pos]
    IN  IF pos = inputlen THEN no
        ELSE LET b == input[pos + 1] IN
             IF b < 128
             THEN IF b > inputlen - (pos + 1) THEN no
                  ELSE [ok |-> TRUE, len |-> b, pos |-> pos + 1]
             ELSE IF b - 128 > inputlen - (pos + 1) THEN no
             ELSE LET z == LaxSkipZeros(input, pos + 1, b - 128) IN
                  IF z.lenbyte >= 2 THEN no
                  ELSE LET len == IF z.lenbyte = 1 THEN input[z.pos + 1] ELSE 0
                           at  == z.pos + z.lenbyte
                       IN  IF len > inputlen - at THEN no
                           ELSE [ok |-> TRUE, len |-> len, pos |-> at]

\* the INTEGER at offset pos: its tag, its length and where its bytes are
lax_integer(input, pos) ==
    LET no == [ok |-> FALSE, at |-> pos, len |-> 0, pos |-> pos] IN
    IF pos = Len(input) \/ input[pos + 1] # 2 THEN no
    ELSE LET l == lax_integer_len(input, pos + 1) IN
         IF ~l.ok THEN no
         ELSE [ok |-> TRUE, at |-> l.pos, len |-> l.len, pos |-> l.pos + l.len]

\* leading zero bytes of the integer are ignored, the rest is right-aligned
\* in 32 bytes; more than 32 bytes is an overflow
RECURSIVE LaxStrip(_)
LaxStrip(b) == IF Len(b) > 0 /\ b[1] = 0 THEN LaxStrip(Tail(b)) ELSE b

\* ecdsa_signature_parse_der_lax
ecdsa_signature_parse_der_lax(input) ==
    LET inputlen == Len(input)
        no == [ret |-> 0, sig |-> ffi_Signature_new]
    IN  IF inputlen = 0 \/ input[1] # 48 THEN no
        ELSE IF inputlen = 1 THEN no
        ELSE LET lenbyte == input[2]
                 skip == IF lenbyte >= 128 THEN lenbyte - 128 ELSE 0
             IN  IF skip > inputlen - 2 THEN no
                 ELSE LET r == lax_integer(input, 2 + skip) IN
                      IF ~r.ok THEN no
                      ELSE LET s == lax_integer(input, r.pos) IN
                           IF ~s.ok THEN no
                           ELSE LET rb == LaxStrip(SubSeq(input, r.at + 1, r.at + r.len))
                                    sb == LaxStrip(SubSeq(input, s.at + 1, s.at + s.len))
                                    tmpsig == Zeros(32 - Len(rb)) \o rb
                                              \o Zeros(32 - Len(sb)) \o sb
                                    parsed == secp256k1_ecdsa_signature_parse_compact(tmpsig)
                                IN  IF Len(rb) > 32 \/ Len(sb) > 32 \/ parsed.ret = 0
                                    THEN [ret |-> 1, sig |-> ffi_Signature_new]
                                    ELSE [ret |-> 1, sig |-> parsed.sig]

\* secp256k1_ecdsa_signature_normalize(sigout, sigin): the low-S form of
\* sigin is stored in sigout; ret 1 iff sigin was not normalized
secp256k1_ecdsa_signature_normalize(sigin) ==
    IF scalar_is_high(sigin.s)
    THEN [ret |-> 1, sigout |-> [r |-> sigin.r, s |-> scalar_negate(sigin.s)]]
    ELSE [ret |-> 0, sigout |-> sigin]

----------------------------------------------------------------------------
(* SerializedSignature (ecdsa/serialized_signature.rs) and hex text (lib.rs) *)

\* capacity of a SerializedSignature: the longest DER encoding
MAX_LEN == 72

\* SerializedSignature::default()
SerializedSignature_default == [data |-> Zeros(MAX_LEN), len |-> 0]

\* Deref for SerializedSignature: &self.data[..self.len]
Deref(ser) == SubSeq(ser.data, 1, ser.len)

\* the bytes written at the start of the buffer, the rest left as it was
WriteAt0(data, bytes) ==
    [i \in 1..Len(data) |-> IF i <= Len(bytes) THEN bytes[i] ELSE data[i]]

HexDigits ==
    <<"0", "1", "2", "3", "4", "5", "6", "7", "8", "9", "a", "b", "c", "d", "e", "f">>

\* fmt::Display for SerializedSignature: "{:02x}" of each byte of the slice
RECURSIVE to_hex(_)
to_hex(bytes) ==
    IF bytes = <<>> THEN <<>>
    ELSE <<HexDigits[(Head(bytes) \div 16) + 1], HexDigits[(Head(bytes) % 16) + 1]>>
         \o to_hex(Tail(bytes))

\* the value of one hex character, -1 when it is none
HexValue(c) ==
    IF \E i \in 1..16 : HexDigits[i] = c
    THEN (CHOOSE i \in 1..16 : HexDigits[i] = c) - 1
    ELSE IF c \in {"A", "B", "C", "D", "E", "F"}
    THEN CASE c = "A" -> 10 [] c = "B" -> 11 [] c = "C" -> 12
           [] c = "D" -> 13 [] c = "E" -> 14 [] c = "F" -> 15
    ELSE -1

\* from_hex(hex, target): Ok(number of bytes) and the bytes, or Err(())
from_hex(hex, targetlen) ==
    IF Len(hex) % 2 = 1 \/ Len(hex) > targetlen * 2
    THEN [ok |-> FALSE, len |-> 0, bytes |-> <<>>]
    ELSE IF \E i \in 1..Len(hex) : HexValue(hex[i]) = -1
    THEN [ok |-> FALSE, len |-> 0, bytes |-> <<>>]
    ELSE [ok |-> TRUE, len |-> Len(hex) \div 2,
          bytes |-> [i \in 1..(Len(hex) \div 2) |->
                        16 * HexValue(hex[2 * i - 1]) + HexValue(hex[2 * i])]]

----------------------------------------------------------------------------
(* impl Signature (ecdsa/mod.rs) *)

\* Signature::from_der
from_der(data) ==
    IF data = <<>> THEN Err(InvalidSignature)
    ELSE LET p == secp256k1_ecdsa_signature_parse_der(data) IN
         IF p.ret = 1 THEN Ok(p.sig) ELSE Err(InvalidSignature)

\* from_compact reporting a wrong length with the error of verification
from_compact_wrong_error(data) ==
    IF Len(data) # 64 THEN Err(IncorrectSignature)
    ELSE LET p == secp256k1_ecdsa_signature_parse_compact(data) IN
         IF p.ret = 1 THEN Ok(p.sig) ELSE Err(InvalidSignature)

\* Signature::from_compact
from_compact(data) ==
    IF Len(data) # 64 THEN Err(InvalidSignature)
    ELSE LET p == secp256k1_ecdsa_signature_parse_compact(data) IN
         IF p.ret = 1 THEN Ok(p.sig) ELSE Err(InvalidSignature)

\* Signature::from_der_lax
from_der_lax(data) ==
    IF data = <<>> THEN Err(InvalidSignature)
    ELSE LET p == ecdsa_signature_parse_der_lax(data) IN
         IF p.ret = 1 THEN Ok(p.sig) ELSE Err(InvalidSignature)

\* <Signature as FromStr>::from_str
from_str(s) ==
    LET x == from_hex(s, 72) IN
    IF x.ok
    THEN from_der(SubSeq(WriteAt0(Zeros(72), x.bytes), 1, x.len))
    ELSE Err(InvalidSignature)

\* normalize_s with the engine's output written to a copy and dropped
normalize_s_discarded(self) ==
    LET out == secp256k1_ecdsa_signature_normalize(self).sigout IN self

\* Signature::normalize_s: the engine reads self and writes self
normalize_s(self) == secp256k1_ecdsa_signature_normalize(self).sigout

\* serialize_der leaving the length at the capacity it started with
serialize_der_capacity(self) ==
    LET ret == SerializedSignature_default
        out == secp256k1_ecdsa_signature_serialize_der(MAX_LEN, self)
    IN  [data |-> WriteAt0(ret.data, out.output), len |-> MAX_LEN]

\* Signature::serialize_der
serialize_der(self) ==
    LET ret == SerializedSignature_default
        out == secp256k1_ecdsa_signature_serialize_der(MAX_LEN, self)
    IN  [data |-> WriteAt0(ret.data, out.output), len |-> out.outputlen]

\* Signature::serialize_compact
serialize_compact(self) ==
    secp256k1_ecdsa_signature_serialize_compact(self).output64

\* <Signature as Display>::fmt
to_string(self) == to_hex(Deref(serialize_der(self)))

----------------------------------------------------------------------------
(* The engine's signing and verification (secp256k1-sys) *)

\* the digests of the documentation tests: [0xab; 32] and [0xcd; 32]
Messages == { Rep(171, 32), Rep(205, 32) }

\* the caller's secret key, and the key of somebody else
SecretKeys == { Zeros(31) \o <<1>> }

OtherKeys == { Zeros(31) \o <<2>> }

\* PublicKey::from_secret_key: the point sk * G
PublicKey_from_secret_key(sk) == <<"G", sk>>

PublicKeys == { PublicKey_from_secret_key(sk) : sk \in SecretKeys \cup OtherKeys }

\* u32::to_le_bytes
to_le_bytes(x) ==
    << x % 256, (x \div 256) % 256, (x \div 65536) % 256, (x \div 16777216) % 256 >>

\* what the nonce function can be given as extra data: nothing (a null
\* pointer, <<>>) or 32 bytes
NonceData ==
    { <<>> } \cup { to_le_bytes(c) \o Zeros(28) : c \in 0..(U32Modulus - 1) }

\* r is the x coordinate of the nonce point.  The nonce is a hash of the
\* key, the digest and the extra data: whether r has its top bit set is
\* given by rfc6979, and r differs when the extra data differs.
NonceR(msg32, seckey, noncedata) ==
    LET high == (rfc6979[noncedata] + msg32[1] + seckey[32]) % 2 = 1
        tag  == IF noncedata = <<>> THEN <<0, 0>> ELSE <<1, noncedata[1]>>
    IN  <<IF high THEN 200 ELSE 69>> \o Zeros(29) \o tag

\* the one low s that makes (r, s) a signature of msg32 under the key
SignatureS(msg32, seckey, r) ==
    (IF msg32[1] = 171 THEN <<60, 0>> ELSE <<0, 85>>) \o Zeros(25)
        \o <<msg32[1], seckey[32], r[1], r[31], r[32]>>

\* secp256k1_ecdsa_sign with secp256k1_nonce_function_rfc6979: always 1 for
\* a valid digest and key; the signature is in low-S form
secp256k1_ecdsa_sign(msg32, seckey, noncedata) ==
    LET r == NonceR(msg32, seckey, noncedata)
    IN  [ret |-> 1, sig |-> [r |-> r, s |-> SignatureS(msg32, seckey, r)]]

\* secp256k1_ecdsa_verify: 1 iff s is low, r and s are not zero and (r, s)
\* is a signature of msg32 under the key
secp256k1_ecdsa_verify(s, msg32, pubkey) ==
    IF /\ ~scalar_is_high(s.s)
       /\ ~IsZero(s.r)
       /\ ~IsZero(s.s)
       /\ s.s = SignatureS(msg32, pubkey[2], s.r)
    THEN 1 ELSE 0

----------------------------------------------------------------------------
(* impl Secp256k1 (ecdsa/mod.rs): each method gives the value it returns   *)
(* and the engine calls it made                                            *)

SignCall(msg, sk, noncedata, out) ==
    [fn |-> "secp256k1_ecdsa_sign", msg |-> msg, key |-> sk,
     noncedata |-> noncedata, ret |-> out.ret, sig |-> out.sig]

\* Secp256k1::sign_ecdsa_with_noncedata_pointer
sign_ecdsa_with_noncedata_pointer(msg, sk, noncedata_ptr) ==
    LET out == secp256k1_ecdsa_sign(msg, sk, noncedata_ptr)
    IN  [panic |-> out.ret # 1, ret |-> out.sig,
         calls |-> <<SignCall(msg, sk, noncedata_ptr, out)>>]

\* Secp256k1::sign_ecdsa
sign_ecdsa(msg, sk) == sign_ecdsa_with_noncedata_pointer(msg, sk, <<>>)

\* Secp256k1::sign (deprecated)
sign(msg, sk) == sign_ecdsa(msg, sk)

\* Secp256k1::sign_ecdsa_with_noncedata
sign_ecdsa_with_noncedata(msg, sk, noncedata) ==
    sign_ecdsa_with_noncedata_pointer(msg, sk, noncedata)

\* verify_ecdsa with the test of the engine's answer inverted
verify_ecdsa_inverted(msg, s, pk) ==
    LET ret == secp256k1_ecdsa_verify(s, msg, pk)
    IN  [panic |-> FALSE,
         ret |-> IF ret = 1 THEN Err(IncorrectSignature) ELSE Ok(<<>>),
         calls |-> <<[fn |-> "secp256k1_ecdsa_verify", msg |-> msg, key |-> pk,
                      noncedata |-> <<>>, ret |-> ret, sig |-> s]>>]

\* Secp256k1::verify_ecdsa
verify_ecdsa(msg, s, pk) ==
    LET ret == secp256k1_ecdsa_verify(s, msg, pk)
    IN  [panic |-> FALSE,
         ret |-> IF ret = 0 THEN Err(IncorrectSignature) ELSE Ok(<<>>),
         calls |-> <<[fn |-> "secp256k1_ecdsa_verify", msg |-> msg, key |-> pk,
                      noncedata |-> <<>>, ret |-> ret, sig |-> s]>>]

\* Secp256k1::verify (deprecated)
verify(msg, s, pk) == verify_ecdsa(msg, s, pk)

\* compact_sig_has_zero_first_bit
compact_sig_has_zero_first_bit(s) ==
    secp256k1_ecdsa_signature_serialize_compact(s).output64[1] < 128

\* der_length_check
der_length_check(s, max_len) ==
    secp256k1_ecdsa_signature_serialize_der(72, s).outputlen <= max_len

\* a - b in usize: a panic with overflow checks, the wrapped value without
UsizeSub(a, b) ==
    IF a >= b THEN [panic |-> FALSE, val |-> a - b]
    ELSE IF build.overflow_checks THEN [panic |-> TRUE, val |-> 0]
    ELSE [panic |-> FALSE, val |-> a - b + UsizeModulus]

\* counter += 1 in u32
U32Incr(c) ==
    IF c + 1 < U32Modulus THEN [panic |-> FALSE, val |-> c + 1]
    ELSE IF build.overflow_checks THEN [panic |-> TRUE, val |-> c]
    ELSE [panic |-> FALSE, val |-> 0]

\* the closure of sign_ecdsa_grind_r:
\* |s| der_length_check(s, 71 - bytes_to_grind)
len_check(bytes_to_grind) == [kind |-> "len_check", bytes_to_grind |-> bytes_to_grind]

\* the predicate of sign_ecdsa_low_r
low_r_check == [kind |-> "compact_sig_has_zero_first_bit", bytes_to_grind |-> 0]

\* one evaluation of check(&ret): the subtraction is made inside the closure,
\* each time it is called
Evaluate(chk, s) ==
    IF chk.kind = "len_check"
    THEN LET max_len == UsizeSub(71, chk.bytes_to_grind)
         IN  IF max_len.panic
             THEN [panic |-> TRUE, max_len |-> 0, accepted |-> FALSE]
             ELSE [panic |-> FALSE, max_len |-> max_len.val,
                   accepted |-> der_length_check(s, max_len.val)]
    ELSE [panic |-> FALSE, max_len |-> 0,
          accepted |-> compact_sig_has_zero_first_bit(s)]

NotChecked == [panic |-> FALSE, max_len |-> 0, accepted |-> FALSE]

\* sign_grind_with_check up to the head of its loop
sign_grind_with_check(msg, sk, chk) ==
    /\ check' = chk
    /\ entropy_p' = "null"
    /\ counter' = 0
    /\ extra_entropy' = Zeros(32)
    /\ calls' = <<>>
    /\ checked' = NotChecked
    /\ result' = <<>>
    /\ pc' = "loop"

\* Secp256k1::sign_ecdsa_grind_r
sign_ecdsa_grind_r(msg, sk, bytes_to_grind) ==
    sign_grind_with_check(msg, sk, len_check(bytes_to_grind))

\* Secp256k1::sign_grind_r (deprecated)
sign_grind_r(msg, sk, bytes_to_grind) == sign_ecdsa_grind_r(msg, sk, bytes_to_grind)

\* Secp256k1::sign_ecdsa_low_r
sign_ecdsa_low_r(msg, sk) == sign_grind_with_check(msg, sk, low_r_check)

\* sign_low_r grinding for the length its documentation speaks of
sign_low_r_len(msg, sk) == sign_grind_with_check(msg, sk, len_check(0))

\* Secp256k1::sign_low_r (deprecated)
sign_low_r(msg, sk) == sign_grind_with_check(msg, sk, low_r_check)

----------------------------------------------------------------------------
(* Signing and verification as a state machine: a caller of one context    *)

\* the grind budgets the caller asks for: one and two bytes, one that no
\* signature can meet (71 - 64 is below the shortest encoding, 8 bytes), and
\* one above 71
GrindBytes == {1, 2, 64, 72}

\* attempts of one grinding call that are explored
MaxAttempts == U32Modulus + ExtraAttempts

Method(op, msg, sk, bytes_to_grind, noncedata, s, pk) ==
    [op |-> op, msg |-> msg, sk |-> sk, bytes_to_grind |-> bytes_to_grind,
     noncedata |-> noncedata, sig |-> s, pk |-> pk]

NoCall == Method("none", <<>>, <<>>, 0, <<>>, ffi_Signature_new, <<>>)

NoPrev == [call |-> NoCall, pc |-> "idle", result |-> <<>>, calls |-> <<>>]

SignOps == {"sign", "sign_ecdsa", "sign_ecdsa_with_noncedata"}

GrindROps == {"sign_grind_r", "sign_ecdsa_grind_r"}

LowROps == {"sign_low_r", "sign_ecdsa_low_r"}

GrindOps == GrindROps \cup LowROps

VerifyOps == {"verify", "verify_ecdsa"}

\* a deprecated method and the method that replaces it
Counterpart(op) ==
    CASE op = "sign" -> "sign_ecdsa"
      [] op = "sign_ecdsa" -> "sign"
      [] op = "sign_grind_r" -> "sign_ecdsa_grind_r"
      [] op = "sign_ecdsa_grind_r" -> "sign_grind_r"
      [] op = "sign_low_r" -> "sign_ecdsa_low_r"
      [] op = "sign_ecdsa_low_r" -> "sign_low_r"
      [] op = "verify" -> "verify_ecdsa"
      [] op = "verify_ecdsa" -> "verify"
      [] OTHER -> "none"

Init ==
    /\ build \in [fuzzing : BOOLEAN, overflow_checks : BOOLEAN]
    /\ rfc6979 \in [NonceData -> {0, 1}]
    /\ pc = "idle"
    /\ call = NoCall
    /\ entropy_p = "null"
    /\ counter = 0
    /\ extra_entropy = Zeros(32)
    /\ calls = <<>>
    /\ check = low_r_check
    /\ checked = NotChecked
    /\ result = <<>>
    /\ prev = NoPrev
    /\ sig = ffi_Signature_new
    /\ last = [op |-> "none", self |-> sig, input |-> <<>>, out |-> <<>>]

\* the caller makes a call when the previous one has returned or panicked.
\* When it calls a method with the arguments its counterpart was just called
\* with, the counterpart's outcome is kept for comparison.
Invoke(c) ==
    /\ pc \in {"idle", "done", "panic"}
    /\ call' = c
    /\ prev' = IF pc # "idle" /\ c = [call EXCEPT !.op = Counterpart(call.op)]
               THEN [call |-> call, pc |-> pc, result |-> result, calls |-> calls]
               ELSE NoPrev
    /\ UNCHANGED <<build, rfc6979, codecVars>>

\* a method without a loop has run: v is what it returned and called
Returned(v) ==
    /\ pc' = IF v.panic THEN "panic" ELSE "done"
    /\ result' = IF v.panic THEN "assertion failed" ELSE v.ret
    /\ calls' = v.calls
    /\ entropy_p' = "null"
    /\ counter' = 0
    /\ extra_entropy' = Zeros(32)
    /\ check' = low_r_check
    /\ checked' = NotChecked

Sign ==
    \E msg \in Messages, sk \in SecretKeys :
        /\ Invoke(Method("sign", msg, sk, 0, <<>>, ffi_Signature_new, <<>>))
        /\ Returned(sign(msg, sk))

SignEcdsa ==
    \E msg \in Messages, sk \in SecretKeys :
        /\ Invoke(Method("sign_ecdsa", msg, sk, 0, <<>>, ffi_Signature_new, <<>>))
        /\ Returned(sign_ecdsa(msg, sk))

SignEcdsaWithNoncedata ==
    \E msg \in Messages, sk \in SecretKeys, noncedata \in {to_le_bytes(1) \o Zeros(28)} :
        /\ Invoke(Method("sign_ecdsa_with_noncedata", msg, sk, 0, noncedata,
                         ffi_Signature_new, <<>>))
        /\ Returned(sign_ecdsa_with_noncedata(msg, sk, noncedata))

\* the signatures the caller has at hand to verify: the one just made, its
\* high-S twin, the one just verified, and the zeroed one
SignaturesAtHand ==
    { ffi_Signature_new }
    \cup (IF pc = "done" /\ call.op \in {"sign", "sign_ecdsa"}
          THEN { result, [result EXCEPT !.s = scalar_negate(@)] } ELSE {})
    \cup (IF call.op \in VerifyOps THEN { call.sig } ELSE {})

Verify ==
    \E msg \in Messages, s \in SignaturesAtHand, pk \in PublicKeys :
        /\ Invoke(Method("verify", msg, <<>>, 0, <<>>, s, pk))
        /\ Returned(verify(msg, s, pk))

VerifyEcdsa ==
    \E msg \in Messages, s \in SignaturesAtHand, pk \in PublicKeys :
        /\ Invoke(Method("verify_ecdsa", msg, <<>>, 0, <<>>, s, pk))
        /\ Returned(verify_ecdsa(msg, s, pk))

SignGrindR ==
    \E msg \in Messages, sk \in SecretKeys, bytes_to_grind \in GrindBytes :
        /\ Invoke(Method("sign_grind_r", msg, sk, bytes_to_grind, <<>>,
                         ffi_Signature_new, <<>>))
        /\ sign_grind_r(msg, sk, bytes_to_grind)

SignEcdsaGrindR ==
    \E msg \in Messages, sk \in SecretKeys, bytes_to_grind \in GrindBytes :
        /\ Invoke(Method("sign_ecdsa_grind_r", msg, sk, bytes_to_grind, <<>>,
                         ffi_Signature_new, <<>>))
        /\ sign_ecdsa_grind_r(msg, sk, bytes_to_grind)

SignLowR ==
    \E msg \in Messages, sk \in SecretKeys :
        /\ Invoke(Method("sign_low_r", msg, sk, 0, <<>>, ffi_Signature_new, <<>>))
        /\ sign_low_r(msg, sk)

SignEcdsaLowR ==
    \E msg \in Messages, sk \in SecretKeys :
        /\ Invoke(Method("sign_ecdsa_low_r", msg, sk, 0, <<>>, ffi_Signature_new, <<>>))
        /\ sign_ecdsa_low_r(msg, sk)

\* one iteration of the loop of sign_grind_with_check
Loop ==
    /\ pc = "loop"
    /\ Len(calls) < MaxAttempts
    /\ LET noncedata == IF entropy_p = "null" THEN <<>> ELSE extra_entropy
           out  == secp256k1_ecdsa_sign(call.msg, call.sk, noncedata)
           chk  == Evaluate(check, out.sig)
           next == U32Incr(counter)
       IN  /\ calls' = Append(calls, SignCall(call.msg, call.sk, noncedata, out))
           /\ IF out.ret # 1
              THEN /\ pc' = "panic"
                   /\ result' = "assertion failed"
                   /\ UNCHANGED <<checked, counter, extra_entropy, entropy_p>>
              ELSE IF chk.panic
              THEN /\ pc' = "panic"
                   /\ result' = "attempt to subtract with overflow"
                   /\ checked' = chk
                   /\ UNCHANGED <<counter, extra_entropy, entropy_p>>
              ELSE IF chk.accepted
              THEN /\ pc' = "done"
                   /\ result' = out.sig
                   /\ checked' = chk
                   /\ UNCHANGED <<counter, extra_entropy, entropy_p>>
              ELSE IF next.panic
              THEN /\ pc' = "panic"
                   /\ result' = "attempt to add with overflow"
                   /\ checked' = chk
                   /\ UNCHANGED <<counter, extra_entropy, entropy_p>>
              ELSE /\ counter' = next.val
                   /\ extra_entropy' = to_le_bytes(next.val) \o SubSeq(extra_entropy, 5, 32)
                   /\ entropy_p' = "extra_entropy"
                   /\ checked' = chk
                   /\ IF build.fuzzing
                      THEN pc' = "done" /\ result' = out.sig
                      ELSE pc' = "loop" /\ result' = <<>>
    /\ UNCHANGED <<build, rfc6979, call, check, prev, codecVars>>

Next ==
    \/ Sign
    \/ SignEcdsa
    \/ SignEcdsaWithNoncedata
    \/ Verify
    \/ VerifyEcdsa
    \/ SignGrindR
    \/ SignEcdsaGrindR
    \/ SignLowR
    \/ SignEcdsaLowR
    \/ Loop

Spec == Init /\ [][Next]_vars

----------------------------------------------------------------------------
(* The codec as a state machine: a caller holding one Signature value      *)

One == Zeros(31) \o <<1>>

\* scalars below the order that the codec is exercised with: zero, one, the
\* top bit clear and set, a short one, both sides of n/2, and n - 1
ScalarPool ==
    { Zeros(32),
      One,
      <<127>> \o Zeros(30) \o <<1>>,
      <<128>> \o Zeros(30) \o <<1>>,
      <<0, 128>> \o Zeros(29) \o <<1>>,
      HalfOrder,
      BytesAdd(HalfOrder, One),
      BytesSub(CurveOrder, One) }

\* the values a successful from_compact can return
SigPool == { [r |-> r, s |-> s] : r \in ScalarPool, s \in ScalarPool }

NoOp == [op |-> "none", self |-> ffi_Signature_new, input |-> <<>>, out |-> <<>>]

\* byte strings handed to from_der and from_der_lax: nothing, the encoding
\* of the held value, the whole 72-byte buffer, and damaged encodings
DerInputs(self) ==
    LET ser == serialize_der(self)
        der == Deref(ser)
    IN  { <<>>,
          der,
          ser.data,
          SubSeq(der, 1, Len(der) - 1),
          der \o <<0>>,
          <<49>> \o Tail(der),
          <<48, 129>> \o Tail(der),
          <<48, der[2] + 1, 2, der[4] + 1, 0>> \o SubSeq(der, 5, Len(der)),
          <<48, 70, 2, 33>> \o CurveOrder \o <<1>> \o <<2, 33, 0>> \o CurveOrder }

\* byte strings handed to from_compact
CompactInputs(self) ==
    LET c == serialize_compact(self)
    IN  { <<>>, c, SubSeq(c, 1, 63), c \o <<0>>, Zeros(63), Zeros(65),
          CurveOrder \o self.s, self.r \o Rep(255, 32) }

\* texts handed to from_str
StrInputs(self) ==
    LET h == to_string(self)
    IN  { <<>>, h, Tail(h), <<"g", "0">> \o Tail(Tail(h)), <<"3", "0">>,
          [i \in 1..Len(h) |-> IF h[i] = "a" THEN "A" ELSE h[i]],
          h \o [i \in 1..(146 - Len(h)) |-> "0"] }

CodecInit ==
    /\ sig \in SigPool
    /\ last = NoOp
    /\ build = [fuzzing |-> FALSE, overflow_checks |-> FALSE]
    /\ rfc6979 = <<>>
    /\ pc = "idle"
    /\ call = NoCall
    /\ entropy_p = "null"
    /\ counter = 0
    /\ extra_entropy = Zeros(32)
    /\ calls = <<>>
    /\ check = low_r_check
    /\ checked = NotChecked
    /\ result = <<>>
    /\ prev = NoPrev

\* a parsing constructor was called: on Ok the caller holds the new value
Parsed(op, input, out) ==
    /\ last' = [op |-> op, self |-> sig, input |-> input, out |-> out]
    /\ sig' = IF out.ok THEN out.val ELSE sig
    /\ UNCHANGED signVars

FromDer == \E data \in DerInputs(sig) : Parsed("from_der", data, from_der(data))

FromDerLax == \E data \in DerInputs(sig) : Parsed("from_der_lax", data, from_der_lax(data))

FromCompact == \E data \in CompactInputs(sig) : Parsed("from_compact", data, from_compact(data))

FromStr == \E s \in StrInputs(sig) : Parsed("from_str", s, from_str(s))

SerializeDer ==
    /\ last' = [op |-> "serialize_der", self |-> sig, input |-> <<>>,
                out |-> serialize_der(sig)]
    /\ UNCHANGED <<sig, signVars>>

SerializeCompact ==
    /\ last' = [op |-> "serialize_compact", self |-> sig, input |-> <<>>,
                out |-> serialize_compact(sig)]
    /\ UNCHANGED <<sig, signVars>>

NormalizeS ==
    /\ sig' = normalize_s(sig)
    /\ last' = [op |-> "normalize_s", self |-> sig, input |-> <<>>, out |-> sig']
    /\ UNCHANGED signVars

CodecNext ==
    \/ FromDer
    \/ FromDerLax
    \/ FromCompact
    \/ FromStr
    \/ SerializeDer
    \/ SerializeCompact
    \/ NormalizeS

CodecSpec == CodecInit /\ [][CodecNext]_vars

ParseOps == {"from_der", "from_der_lax", "from_compact", "from_str"}

----------------------------------------------------------------------------
(* Claims about the codec and normalisation, checked under CodecSpec *)

\* C3: encoding round trip.  Parsing the DER bytes that serialize_der
\* reports (the first len bytes of its buffer) gives back the signature,
\* parsing the 64 compact bytes gives back the signature, and the reported
\* DER length is at most the 72-byte capacity.
C3_RoundTrip ==
    /\ last.op = "serialize_der" =>
          /\ last.out.len <= 72
          /\ Len(Deref(last.out)) = last.out.len
          /\ from_der(Deref(last.out)) = Ok(last.self)
    /\ last.op = "serialize_compact" =>
          /\ Len(last.out) = 64
          /\ from_compact(last.out) = Ok(last.self)
    /\ (last.op = "from_der" /\ last.input = Deref(serialize_der(last.self))) =>
          (last.out.ok /\ last.out.val = last.self /\ sig = last.self)
    /\ (last.op = "from_compact" /\ last.input = serialize_compact(last.self)) =>
          (last.out.ok /\ last.out.val = last.self /\ sig = last.self)

\* a DER round trip of a signature whose encoding is shorter than the buffer
C3_Witness ==
    /\ last.op = "from_der"
    /\ last.input = Deref(serialize_der(last.self))
    /\ Len(last.input) < 72
    /\ last.input # serialize_der(last.self).data
    /\ last.out.ok

\* C4: normalize_s keeps r, replaces a high s by n - s (so old s + new s = n),
\* leaves a low s alone, ends with s <= n/2, and is idempotent.
C4_NormalizeS ==
    last.op = "normalize_s" =>
        /\ last.out.r = last.self.r
        /\ BytesLess(HalfOrder, last.self.s) =>
              /\ BytesAdd(last.out.s, last.self.s) = CurveOrder
              /\ last.out # last.self
        /\ ~BytesLess(HalfOrder, last.self.s) => last.out = last.self
        /\ ~BytesLess(HalfOrder, last.out.s)
        /\ normalize_s(last.out) = last.out
        /\ sig = last.out

\* normalize_s has been applied to a signature with s in the upper half
C4_Witness ==
    /\ last.op = "normalize_s"
    /\ BytesLess(HalfOrder, last.self.s)
    /\ sig.s # last.self.s

\* C5: empty input to from_der and from_der_lax and input of a length other
\* than 64 to from_compact give Err(InvalidSignature) and no Signature; a
\* parsing entry point never fails with any other error.
C5_MalformedRejected ==
    last.op \in ParseOps =>
        /\ (last.op \in {"from_der", "from_der_lax"} /\ last.input = <<>>) =>
              (~last.out.ok /\ last.out.err = InvalidSignature)
        /\ (last.op = "from_compact" /\ Len(last.input) # 64) =>
              (~last.out.ok /\ last.out.err = InvalidSignature)
        /\ ~last.out.ok => (last.out.err = InvalidSignature /\ sig = last.self)

\* from_compact has rejected a 65-byte slice
C5_Witness ==
    /\ last.op = "from_compact"
    /\ Len(last.input) = 65
    /\ ~last.out.ok

----------------------------------------------------------------------------
(* Claims about signing, grinding and verification, checked under Spec *)

\* C1: without cfg(fuzzing), a signature returned by sign_ecdsa_grind_r or
\* sign_grind_r has a DER encoding of at most 71 - bytes_to_grind bytes, and
\* one returned by sign_ecdsa_low_r or sign_low_r has a compact encoding
\* whose first byte is below 0x80.
C1_GrindingSatisfiesPredicate ==
    (~build.fuzzing /\ pc = "done" /\ call.op \in GrindOps) =>
        /\ call.op \in GrindROps =>
              serialize_der(result).len <= 71 - call.bytes_to_grind
        /\ call.op \in LowROps => serialize_compact(result)[1] < 128

\* C2: a signature made by sign_ecdsa verifies for its digest and key and
\* fails with IncorrectSignature for another digest; verify_ecdsa makes one
\* engine call, returns Err(IncorrectSignature) exactly when that call
\* reports 0 and Ok(()) otherwise, and does not panic.
C2_SignVerify ==
    /\ (pc = "done" /\ call.op = "sign_ecdsa") =>
          LET pk == PublicKey_from_secret_key(call.sk) IN
          /\ verify_ecdsa(call.msg, result, pk).ret = Ok(<<>>)
          /\ \A m \in Messages \ {call.msg} :
                LET v == verify_ecdsa(m, result, pk) IN
                ~v.panic /\ ~v.ret.ok /\ v.ret.err = IncorrectSignature
    /\ call.op = "verify_ecdsa" =>
          /\ pc = "done"
          /\ Len(calls) = 1
          /\ calls[1].fn = "secp256k1_ecdsa_verify"
          /\ calls[1].msg = call.msg /\ calls[1].sig = call.sig /\ calls[1].key = call.pk
          /\ calls[1].ret = secp256k1_ecdsa_verify(call.sig, call.msg, call.pk)
          /\ calls[1].ret = 0 => (~result.ok /\ result.err = IncorrectSignature)
          /\ calls[1].ret # 0 => result = Ok(<<>>)

\* verify_ecdsa has rejected, for one digest, a signature that sign_ecdsa
\* made for the other digest under the same key
C2_Witness ==
    /\ pc = "done"
    /\ call.op = "verify_ecdsa"
    /\ ~result.ok
    /\ \E m \in Messages \ {call.msg}, sk \in SecretKeys :
          /\ call.pk = PublicKey_from_secret_key(sk)
          /\ call.sig = sign_ecdsa(m, sk).ret

\* C6: a deprecated method called with the arguments of its replacement (or
\* the other way round) ends the same way, returns the same value and makes
\* the same engine calls in the same order.
C6_AliasesIdentical ==
    prev.call.op # "none" =>
        /\ call.op = Counterpart(prev.call.op)
        /\ pc \in {"done", "panic"} =>
              /\ pc = prev.pc
              /\ result = prev.result
              /\ calls = prev.calls
        /\ pc = "loop" =>
              /\ Len(calls) <= Len(prev.calls)
              /\ calls = SubSeq(prev.calls, 1, Len(calls))

\* sign_low_r has returned after sign_ecdsa_low_r was called with the same
\* arguments, and the grinding took more than one attempt
C6_Witness ==
    /\ pc = "done"
    /\ call.op = "sign_low_r"
    /\ prev.call.op = "sign_ecdsa_low_r"
    /\ Len(calls) >= 2

\* C7: under cfg(fuzzing) sign_grind_with_check makes exactly one signing
\* call, with no extra entropy, and returns its signature, whatever the
\* predicate does.
C7_FuzzingShortCircuit ==
    (build.fuzzing /\ call.op \in GrindOps /\ Len(calls) >= 1) =>
        /\ pc = "done"
        /\ Len(calls) = 1
        /\ calls[1].noncedata = <<>>
        /\ result = calls[1].sig

\* C8: without cfg(fuzzing), attempt 0 is the engine call of sign_ecdsa,
\* attempt k >= 1 is given the entropy to_le_bytes(k) followed by 28 zero
\* bytes, and the call returns the signature of the first attempt that the
\* predicate accepts, with no signing call after it.
C8_GrindingProtocol ==
    (~build.fuzzing /\ call.op \in GrindOps) =>
        /\ \A k \in 1..Len(calls) :
              /\ calls[k].fn = "secp256k1_ecdsa_sign"
              /\ calls[k].msg = call.msg /\ calls[k].key = call.sk
              /\ calls[k].noncedata =
                    IF k = 1 THEN <<>> ELSE to_le_bytes(k - 1) \o Zeros(28)
        /\ Len(calls) >= 1 => calls[1] = sign_ecdsa(call.msg, call.sk).calls[1]
        /\ pc = "done" =>
              /\ result = calls[Len(calls)].sig
              /\ Evaluate(check, result).accepted
              /\ \A k \in 1..(Len(calls) - 1) : ~Evaluate(check, calls[k].sig).accepted
        /\ (pc = "done" /\ Evaluate(check, sign_ecdsa(call.msg, call.sk).ret).accepted) =>
              (result = sign_ecdsa(call.msg, call.sk).ret /\ Len(calls) = 1)

\* C9: within one grinding call the counter is the number of failed attempts,
\* it never wraps or overflows, and no two attempts are given the same
\* nonce-derivation input.
C9_CounterNeverRepeats ==
    call.op \in GrindOps =>
        /\ ~(pc = "panic" /\ result = "attempt to add with overflow")
        /\ pc = "loop" => counter = Len(calls)
        /\ \A i, j \in 1..Len(calls) :
              i # j => calls[i].noncedata # calls[j].noncedata

\* C10: whatever bytes_to_grind is, the subtraction 71 - bytes_to_grind does
\* not abort, the maximum length given to der_length_check is the number
\* 71 - bytes_to_grind, at most 71, and no 72-byte encoding is accepted.
C10_MaxLenIsExact ==
    (call.op \in GrindROps /\ Len(calls) >= 1) =>
        /\ ~(pc = "panic" /\ result = "attempt to subtract with overflow")
        /\ checked.max_len = 71 - call.bytes_to_grind
        /\ checked.max_len <= 71
        /\ checked.accepted => serialize_der(calls[Len(calls)].sig).len < 72

====
